---- MODULE Spec2Model ----
(***************************************************************************)
(* The camera-guidance screen of align-shot-guide: the CameraGuidance      *)
(* component's state (session, guidanceDirection, isCapturing,             *)
(* totalPoints), the useDeviceMotion hook's latest motion value, the       *)
(* Camera.getPhoto requests in flight, and the handlers that change them.  *)
(*                                                                         *)
(* A handler of a React function component is a closure over the state of  *)
(* the render that created it.  A synchronous handler therefore reads the  *)
(* state current at its call, but the continuation of handleCapture after  *)
(* `await Camera.getPhoto` still reads the `session` and `currentPoint`    *)
(* of the render in which the capture was issued: each request in flight   *)
(* carries that snapshot.                                                  *)
(*                                                                         *)
(* Date values are abstracted to one token (Stamped); an optional field    *)
(* that is absent holds Undefined.                                         *)
(***************************************************************************)
EXTENDS Integers, Sequences, FiniteSets, Bags, TLC

\* ------------------------------------------------------------- bounds
\* Sessions ever started (generateSessionId yields a fresh id per start).
MaxSessions == 2
\* Camera.getPhoto calls in flight at once.
MaxOutstanding == 2
\* Point counts handed to onPointsChange when the handlers are called directly.
MaxPoints == 2
\* The largest option of the select the user picks.
MaxSelectable == 7
\* The largest tilt (gamma, in degrees either way) of the fine-grained readings.
MaxGamma == 8
\* Permission requests in flight at once.
MaxPermissionRequests == 2

PointCounts == 1..MaxPoints

\* -------------------------------------------------- program constants
InitialTotalPoints == 7
OverlapPercentage == 30
MiddleOfScreen == 50
DefaultTolerance == 15
GammaAmplification == 2
VerticalTarget == 45
VerticalBand == 30
GuidanceThreshold == 5
EarlierGuidanceThreshold == 10
LabelThreshold == 5

\* The <option> values of the "Points to capture" select.
PointOptions == {5, 7, 10, 15}
SelectableOptions == {n \in PointOptions : n <= MaxSelectable}

Undefined == "undefined"
Stamped == "date"
Null == [kind |-> "null"]

\* What Camera.getPhoto resolves with (image.dataUrl).
Images == {"data:image/jpeg;base64"}

\* Orientation events the sensor delivers: flat (not aligned, no hint), held
\* up with a slight left tilt (aligned, horizontalOffset -8), and flat from a
\* device that reports no compass heading (the event has no alpha).
Readings ==
  { [alpha |-> 0, beta |-> 0, gamma |-> 0],
    [alpha |-> 0, beta |-> 45, gamma |-> -4],
    [beta |-> 0, gamma |-> 0] }

\* Fine-grained readings: every whole tilt up to MaxGamma either way (the
\* horizontal offset is twice that, so both the hint threshold and the
\* tolerance lie inside), and forward tilts on and beside the two edges of the
\* vertical band.
BetaValues == {0, 15, 16, 74, 75}
SensorReadings == [alpha : {0}, beta : BetaValues, gamma : -MaxGamma..MaxGamma]

VARIABLES
  session,            \* useState<CaptureSession | null>
  guidanceDirection,  \* useState<'left' | 'right' | 'center'>
  isCapturing,        \* useState(false)
  totalPoints,        \* useState(7): the selected point count
  motion,             \* useDeviceMotion: the latest reading
  motionSupported,    \* useDeviceMotion: the listener was registered
  outstanding,        \* Camera.getPhoto calls in flight: a bag of the sessions
                      \* their continuations closed over
  nextSessionId,      \* the id the next generateSessionId() returns
  pulses,             \* haptic pulses fired by the last event
  permissions         \* the permission state of the permission-aware
                      \* revisions; Null in the first revision, which keeps none

vars ==
  << session, guidanceDirection, isCapturing, totalPoints, motion,
     motionSupported, outstanding, nextSessionId, pulses, permissions >>

Abs(n) == IF n < 0 THEN -n ELSE n

\* ------------------------------------------------------ pure functions

\* generateCapturePoints with the loop running to i <= totalPoints.
generateCapturePointsInclusive(n) ==
  [ i \in 1..(n + 1) |->
      [ id |-> i - 1,
        x |-> [num |-> (i - 1) * 100, den |-> n - 1],
        y |-> MiddleOfScreen,
        captured |-> FALSE,
        imageData |-> Undefined ] ]

\* x is (i / (totalPoints - 1)) * 100, kept as the fraction num/den.
generateCapturePoints(n) ==
  [ i \in 1..n |->
      [ id |-> i - 1,
        x |-> [num |-> (i - 1) * 100, den |-> n - 1],
        y |-> MiddleOfScreen,
        captured |-> FALSE,
        imageData |-> Undefined ] ]

\* calculateAlignment measuring the tilt from the current point's place in
\* the row (one degree per point).
calculateAlignmentTowardsPoint(currentPoint, deviceMotion, tolerance) ==
  LET horizontalOffset ==
        deviceMotion.gamma * GammaAmplification - currentPoint.id
      verticalOffset == deviceMotion.beta
      rotation == deviceMotion.alpha
      isHorizontallyAligned == Abs(horizontalOffset) < tolerance
      isVerticallyAligned == Abs(verticalOffset - VerticalTarget) < VerticalBand
  IN  [ isAligned |-> isHorizontallyAligned /\ isVerticallyAligned,
        horizontalOffset |-> horizontalOffset,
        verticalOffset |-> verticalOffset,
        rotation |-> rotation ]

\* calculateAlignment without the test of the forward tilt.
calculateAlignmentHorizontalOnly(currentPoint, deviceMotion, tolerance) ==
  LET horizontalOffset == deviceMotion.gamma * GammaAmplification
      verticalOffset == deviceMotion.beta
      rotation == deviceMotion.alpha
      isHorizontallyAligned == Abs(horizontalOffset) < tolerance
  IN  [ isAligned |-> isHorizontallyAligned,
        horizontalOffset |-> horizontalOffset,
        verticalOffset |-> verticalOffset,
        rotation |-> rotation ]

calculateAlignment(currentPoint, deviceMotion, tolerance) ==
  LET horizontalOffset == deviceMotion.gamma * GammaAmplification
      verticalOffset == deviceMotion.beta
      rotation == deviceMotion.alpha
      isHorizontallyAligned == Abs(horizontalOffset) < tolerance
      isVerticallyAligned == Abs(verticalOffset - VerticalTarget) < VerticalBand
      isRotationAligned == TRUE
  IN  [ isAligned |->
          isHorizontallyAligned /\ isVerticallyAligned /\ isRotationAligned,
        horizontalOffset |-> horizontalOffset,
        verticalOffset |-> verticalOffset,
        rotation |-> rotation ]

\* session?.points[session.currentPointIndex]
HasCurrentPoint(s) ==
  /\ s # Null
  /\ s.currentPointIndex + 1 \in DOMAIN s.points

CurrentPointOf(s) == s.points[s.currentPointIndex + 1]

AlignmentOf(s, m) ==
  IF HasCurrentPoint(s)
  THEN calculateAlignment(CurrentPointOf(s), m, DefaultTolerance)
  ELSE [ isAligned |-> FALSE, horizontalOffset |-> 0,
         verticalOffset |-> 0, rotation |-> 0 ]

alignment == AlignmentOf(session, motion)

\* OverlayDirection with the threshold itself counted as a direction
\* (<= and >= for < and >).
OverlayDirectionInclusive(horizontalOffset) ==
  IF horizontalOffset <= -GuidanceThreshold THEN "left"
  ELSE IF horizontalOffset >= GuidanceThreshold THEN "right"
  ELSE "center"

\* The classification in the earlier revision of CameraOverlay.
OverlayDirectionEarlier(horizontalOffset) ==
  IF horizontalOffset < -EarlierGuidanceThreshold THEN "right"
  ELSE IF horizontalOffset > EarlierGuidanceThreshold THEN "left"
  ELSE "center"

\* The CameraOverlay effect's classification of the horizontal offset.
OverlayDirection(horizontalOffset) ==
  IF horizontalOffset < -GuidanceThreshold THEN "left"
  ELSE IF horizontalOffset > GuidanceThreshold THEN "right"
  ELSE "center"

\* The text under the overlay's direction indicator.
OverlayLabel(horizontalOffset) ==
  IF Abs(horizontalOffset) < LabelThreshold THEN "ALIGNED"
  ELSE IF horizontalOffset > 0 THEN "TILT LEFT"
  ELSE "TILT RIGHT"

\* The text GuidanceArrow shows beside its arrow: nothing when hidden or
\* centred, otherwise TILT and the direction in upper case.
ArrowLabel(direction, isVisible) ==
  IF ~isVisible \/ direction = "center" THEN "none"
  ELSE IF direction = "left" THEN "TILT LEFT"
  ELSE "TILT RIGHT"

IsSessionActive(s) == s # Null /\ s.isActive

\* ------------------------------------------------- handlers as functions

\* startSession: the session it hands to setSession.
startSession(n, id) ==
  [ id |-> id,
    points |-> generateCapturePoints(n),
    totalPoints |-> n,
    currentPointIndex |-> 0,
    overlapPercentage |-> OverlapPercentage,
    isActive |-> TRUE,
    endTime |-> Undefined ]

\* stopSession without the endTime stamp.
stopSessionNoEndTime(s) == [s EXCEPT !.isActive = FALSE]

\* stopSession: { ...session, isActive: false, endTime: new Date() }
stopSession(s) == [s EXCEPT !.isActive = FALSE, !.endTime = Stamped]

\* handleCapture's first line without the alignment test.
captureRejectedIgnoringAlignment(s, m, capturing) ==
  \/ s = Null
  \/ ~HasCurrentPoint(s)
  \/ capturing

\* handleCapture's first line: any of these rejects the attempt.
captureRejected(s, m, capturing) ==
  \/ s = Null
  \/ ~HasCurrentPoint(s)
  \/ ~AlignmentOf(s, m).isAligned
  \/ capturing

\* capturedSession with the completion test off by one
\* (newCurrentIndex > totalPoints).
capturedSessionLateComplete(s, image) ==
  LET currentPoint == CurrentPointOf(s)
      updatedPoints ==
        [ s.points EXCEPT ![s.currentPointIndex + 1] =
            [currentPoint EXCEPT !.captured = TRUE, !.imageData = image] ]
      newCurrentIndex == s.currentPointIndex + 1
      isComplete == newCurrentIndex > s.totalPoints
  IN  [ s EXCEPT
          !.points = updatedPoints,
          !.currentPointIndex =
            IF isComplete THEN s.currentPointIndex ELSE newCurrentIndex,
          !.isActive = ~isComplete,
          !.endTime = IF isComplete THEN Stamped ELSE Undefined ]

\* capturedSession without the endTime stamp on completion.
capturedSessionNoEndTime(s, image) ==
  LET currentPoint == CurrentPointOf(s)
      updatedPoints ==
        [ s.points EXCEPT ![s.currentPointIndex + 1] =
            [currentPoint EXCEPT !.captured = TRUE, !.imageData = image] ]
      newCurrentIndex == s.currentPointIndex + 1
      isComplete == newCurrentIndex >= s.totalPoints
  IN  [ s EXCEPT
          !.points = updatedPoints,
          !.currentPointIndex =
            IF isComplete THEN s.currentPointIndex ELSE newCurrentIndex,
          !.isActive = ~isComplete,
          !.endTime = Undefined ]

\* capturedSession advancing the index on completion too
\* (currentPointIndex: newCurrentIndex).
capturedSessionAlwaysAdvancing(s, image) ==
  LET currentPoint == CurrentPointOf(s)
      updatedPoints ==
        [ s.points EXCEPT ![s.currentPointIndex + 1] =
            [currentPoint EXCEPT !.captured = TRUE, !.imageData = image] ]
      newCurrentIndex == s.currentPointIndex + 1
      isComplete == newCurrentIndex >= s.totalPoints
  IN  [ s EXCEPT
          !.points = updatedPoints,
          !.currentPointIndex = newCurrentIndex,
          !.isActive = ~isComplete,
          !.endTime = IF isComplete THEN Stamped ELSE Undefined ]

\* capturedSession leaving the index where it was (currentPointIndex:
\* session.currentPointIndex).
capturedSessionNotAdvancing(s, image) ==
  LET currentPoint == CurrentPointOf(s)
      updatedPoints ==
        [ s.points EXCEPT ![s.currentPointIndex + 1] =
            [currentPoint EXCEPT !.captured = TRUE, !.imageData = image] ]
      newCurrentIndex == s.currentPointIndex + 1
      isComplete == newCurrentIndex >= s.totalPoints
  IN  [ s EXCEPT
          !.points = updatedPoints,
          !.isActive = ~isComplete,
          !.endTime = IF isComplete THEN Stamped ELSE Undefined ]

\* capturedSession without the image payload (imageData left as it was).
capturedSessionWithoutImage(s, image) ==
  LET currentPoint == CurrentPointOf(s)
      updatedPoints ==
        [ s.points EXCEPT ![s.currentPointIndex + 1] =
            [currentPoint EXCEPT !.captured = TRUE] ]
      newCurrentIndex == s.currentPointIndex + 1
      isComplete == newCurrentIndex >= s.totalPoints
  IN  [ s EXCEPT
          !.points = updatedPoints,
          !.currentPointIndex =
            IF isComplete THEN s.currentPointIndex ELSE newCurrentIndex,
          !.isActive = ~isComplete,
          !.endTime = IF isComplete THEN Stamped ELSE Undefined ]

\* handleCapture after the await: the session it hands to setSession, built
\* from the session `s` of the render that issued the request.
capturedSession(s, image) ==
  LET currentPoint == CurrentPointOf(s)
      updatedPoints ==
        [ s.points EXCEPT ![s.currentPointIndex + 1] =
            [currentPoint EXCEPT !.captured = TRUE, !.imageData = image] ]
      newCurrentIndex == s.currentPointIndex + 1
      isComplete == newCurrentIndex >= s.totalPoints
  IN  [ s EXCEPT
          !.points = updatedPoints,
          !.currentPointIndex =
            IF isComplete THEN s.currentPointIndex ELSE newCurrentIndex,
          !.isActive = ~isComplete,
          !.endTime = IF isComplete THEN Stamped ELSE Undefined ]

\* ------------------------------------------------------ render effects
\* What the effects of the render that follows an event leave behind, given
\* the session s2 and motion m2 the event committed, the guidance direction g
\* the handler set, the pulses the handler fired and whether any state
\* changed (React bails out of a render when none did).
\*  - CameraOverlay is mounted while session.isActive; its effect runs on
\*    mount and when alignment.horizontalOffset changes, and reports the
\*    direction through onGuidanceUpdate.
\*  - The alignment-feedback effect lists triggerSuccess, a new function on
\*    every render, among its dependencies: it runs after every render.
RenderEffects(s2, m2, g, fired, rendered) ==
  LET next == AlignmentOf(s2, m2)
      overlayRuns ==
        /\ rendered
        /\ IsSessionActive(s2)
        /\ \/ ~IsSessionActive(session)
           \/ next.horizontalOffset # alignment.horizontalOffset
      feedbackFires ==
        /\ rendered
        /\ IsSessionActive(s2)
        /\ HasCurrentPoint(s2)
        /\ next.isAligned
  IN  /\ guidanceDirection' =
           IF overlayRuns THEN OverlayDirection(next.horizontalOffset) ELSE g
      /\ pulses' = fired \cup (IF feedbackFires THEN {"light"} ELSE {})

\* -------------------------------------------------------------- actions

StartSession ==
  /\ nextSessionId <= MaxSessions
  /\ LET s2 == startSession(totalPoints, nextSessionId)
     IN  /\ session' = s2
         /\ RenderEffects(s2, motion, guidanceDirection, {}, TRUE)
  /\ nextSessionId' = nextSessionId + 1
  /\ UNCHANGED << permissions, isCapturing, totalPoints, motion,
                  motionSupported, outstanding >>

StopSession ==
  /\ IF session # Null
     THEN LET s2 == stopSession(session)
          IN  /\ session' = s2
              /\ RenderEffects(s2, motion, guidanceDirection, {}, TRUE)
     ELSE /\ session' = session
          /\ RenderEffects(session, motion, guidanceDirection, {}, FALSE)
  /\ UNCHANGED << permissions, isCapturing, totalPoints, motion, motionSupported,
                  outstanding, nextSessionId >>

\* resetSession without setIsCapturing(false).
ResetSessionKeepingCapturing ==
  /\ session' = Null
  /\ RenderEffects(Null, motion, "center", {},
                   session # Null \/ guidanceDirection # "center")
  /\ UNCHANGED << permissions, isCapturing, totalPoints, motion, motionSupported,
                  outstanding, nextSessionId >>

ResetSession ==
  /\ session' = Null
  /\ isCapturing' = FALSE
  /\ RenderEffects(Null, motion, "center", {},
                   session # Null \/ guidanceDirection # "center" \/ isCapturing)
  /\ UNCHANGED << permissions, totalPoints, motion, motionSupported,
                  outstanding, nextSessionId >>

\* handleCapture up to the await: reject with a warning pulse, or set
\* isCapturing and call Camera.getPhoto.
HandleCapture ==
  IF captureRejected(session, motion, isCapturing)
  THEN /\ pulses' = {"medium"}
       /\ UNCHANGED << permissions, session, guidanceDirection, isCapturing, totalPoints,
                       motion, motionSupported, outstanding, nextSessionId >>
  ELSE /\ BagCardinality(outstanding) < MaxOutstanding
       /\ isCapturing' = TRUE
       /\ outstanding' = outstanding (+) SetToBag({session})
       /\ RenderEffects(session, motion, guidanceDirection, {}, TRUE)
       /\ UNCHANGED << permissions, session, totalPoints, motion,
                       motionSupported, nextSessionId >>

\* Camera.getPhoto resolves: the try block after the await, then finally.
GetPhotoResolves(request, image) ==
  /\ BagIn(request, outstanding)
  /\ LET s2 == capturedSession(request, image)
     IN  /\ session' = s2
         /\ RenderEffects(s2, motion, guidanceDirection, {"light"}, TRUE)
  /\ isCapturing' = FALSE
  /\ outstanding' = outstanding (-) SetToBag({request})
  /\ UNCHANGED << permissions, totalPoints, motion, motionSupported,
                  nextSessionId >>

\* GetPhotoFails without the finally block.
GetPhotoFailsWithoutFinally(request) ==
  /\ BagIn(request, outstanding)
  /\ outstanding' = outstanding (-) SetToBag({request})
  /\ RenderEffects(session, motion, guidanceDirection, {"heavy"}, FALSE)
  /\ UNCHANGED << permissions, session, isCapturing, totalPoints, motion, motionSupported,
                  nextSessionId >>

\* Camera.getPhoto rejects: the catch block, then finally.
GetPhotoFails(request) ==
  /\ BagIn(request, outstanding)
  /\ isCapturing' = FALSE
  /\ outstanding' = outstanding (-) SetToBag({request})
  /\ RenderEffects(session, motion, guidanceDirection, {"heavy"}, isCapturing)
  /\ UNCHANGED << permissions, session, totalPoints, motion, motionSupported,
                  nextSessionId >>

\* event.alpha || 0: a component the event lacks (null, undefined) is 0.
OrZero(event, component) ==
  IF component \in DOMAIN event THEN event[component] ELSE 0

\* The motion value the listener hands to setMotion.
StoredMotion(event) ==
  [ alpha |-> OrZero(event, "alpha"),
    beta |-> OrZero(event, "beta"),
    gamma |-> OrZero(event, "gamma") ]

\* OrientationEvent keeping the forward tilt and heading of the earlier
\* reading (setMotion(prev => ({ ...prev, gamma }))).
OrientationEventMerging(reading) ==
  /\ motionSupported
  /\ motion' = [motion EXCEPT !.gamma = OrZero(reading, "gamma")]
  /\ RenderEffects(session, [motion EXCEPT !.gamma = OrZero(reading, "gamma")],
                   guidanceDirection, {}, TRUE)
  /\ UNCHANGED << permissions, session, isCapturing, totalPoints, motionSupported,
                  outstanding, nextSessionId >>

\* The orientation listener's callback: setMotion with the event's values.
OrientationEvent(reading) ==
  /\ motionSupported
  /\ motion' = StoredMotion(reading)
  /\ RenderEffects(session, StoredMotion(reading), guidanceDirection, {}, TRUE)
  /\ UNCHANGED << permissions, session, isCapturing, totalPoints, motionSupported,
                  outstanding, nextSessionId >>

\* onPointsChange = setTotalPoints
PointsChange(n) ==
  /\ totalPoints' = n
  /\ RenderEffects(session, motion, guidanceDirection, {}, n # totalPoints)
  /\ UNCHANGED << permissions, session, isCapturing, motion, motionSupported,
                  outstanding, nextSessionId >>

\* What every start state shares; the point count selected differs.
AfterMount ==
  /\ session = Null
  /\ guidanceDirection = "center"
  /\ isCapturing = FALSE
  /\ motion = [alpha |-> 0, beta |-> 0, gamma |-> 0]
  /\ motionSupported \in BOOLEAN
  /\ outstanding = EmptyBag
  /\ nextSessionId = 1
  /\ pulses = {}

\* The handlers called directly: a point count has been handed to
\* onPointsChange (setTotalPoints takes any number) and nothing else has run.
Init ==
  /\ AfterMount
  /\ totalPoints \in PointCounts
  /\ permissions = Null

\* Every handler may be invoked at any time (the handlers' own contract); the
\* point count stays the one handed over before.
Next ==
  \/ StartSession
  \/ StopSession
  \/ ResetSession
  \/ HandleCapture
  \/ \E request \in BagToSet(outstanding), image \in Images :
        GetPhotoResolves(request, image)
  \/ \E request \in BagToSet(outstanding) : GetPhotoFails(request)
  \/ \E reading \in Readings : OrientationEvent(reading)

Spec == Init /\ [][Next]_vars

\* ---------------------------------------------------- the rendered controls
\* CameraControls shows the select and Start while no session is active, and
\* Stop and Reset while one is; CaptureButton is rendered while the session is
\* active and disabled unless aligned and not capturing.
StartVisible == ~IsSessionActive(session)
StopVisible == IsSessionActive(session)
ResetVisible == IsSessionActive(session)
\* CaptureEnabled with the button rendered whenever a session exists.
CaptureEnabledWhenInactive ==
  /\ session # Null
  /\ alignment.isAligned
  /\ ~isCapturing

CaptureEnabled ==
  /\ IsSessionActive(session)
  /\ alignment.isAligned
  /\ ~isCapturing

ClickStart == StartVisible /\ StartSession
ClickStop == StopVisible /\ StopSession
ClickReset == ResetVisible /\ ResetSession
ClickCapture == CaptureEnabled /\ HandleCapture
SelectPoints(n) == StartVisible /\ PointsChange(n)

\* The screen as mounted: useState(7).
InitUI ==
  /\ AfterMount
  /\ totalPoints = InitialTotalPoints
  /\ permissions = Null

\* Handlers run only through the controls the screen renders.
NextUI ==
  \/ ClickStart
  \/ ClickStop
  \/ ClickReset
  \/ ClickCapture
  \/ \E request \in BagToSet(outstanding), image \in Images :
        GetPhotoResolves(request, image)
  \/ \E request \in BagToSet(outstanding) : GetPhotoFails(request)
  \/ \E reading \in Readings : OrientationEvent(reading)
  \/ \E n \in SelectableOptions : SelectPoints(n)

SpecUI == InitUI /\ [][NextUI]_vars

\* The screen with the sensor delivering fine-grained readings: one run of
\* sessions started, captured and stopped through the controls.
NextSensor ==
  \/ ClickStart
  \/ ClickStop
  \/ ClickCapture
  \/ \E request \in BagToSet(outstanding), image \in Images :
        GetPhotoResolves(request, image)
  \/ \E reading \in SensorReadings : OrientationEvent(reading)

SpecSensor == InitUI /\ [][NextSensor]_vars

\* A run in which the user goes for completion: sessions are started and
\* captured, never stopped or reset, and no camera call fails.
AlignedReadings ==
  { reading \in Readings :
      calculateAlignment(generateCapturePoints(InitialTotalPoints)[1],
                         StoredMotion(reading), DefaultTolerance).isAligned }

DeliverAligned == \E reading \in AlignedReadings : OrientationEvent(reading)
PhotoArrives ==
  \E request \in BagToSet(outstanding), image \in Images :
    GetPhotoResolves(request, image)

NextLive ==
  \/ ClickStart
  \/ ClickCapture
  \/ PhotoArrives
  \/ \E reading \in Readings : OrientationEvent(reading)
  \/ \E n \in SelectableOptions : SelectPoints(n)

\* Aligned readings keep occurring, the user taps Capture whenever the button
\* keeps coming back enabled, and Camera.getPhoto returns.
SpecLive ==
  /\ InitUI
  /\ [][NextLive]_vars
  /\ WF_vars(DeliverAligned)
  /\ SF_vars(ClickCapture)
  /\ WF_vars(PhotoArrives)

\* ------------------------------------------- the permission-aware revisions
\* Two later revisions of the component keep permission state.  The "mount"
\* revision asks once, in an effect run on mount (Camera.requestPermissions),
\* and its handlers only refuse while permission is missing.  The "prompt"
\* revision, the latest, asks through requestCameraPermissions, called from
\* the prompt card's button and from startSession and handleCapture when
\* they find permission missing.  The permissions record holds
\* permissionsGranted, permissionsRequested, showPermissionPrompt and the
\* number of permission requests in flight; the mount revision has no
\* prompt card (requested and showPrompt stay FALSE).
Revisions == {"mount", "prompt"}

\* How a permission request ends: the call resolves, the user denies or
\* cancels, the platform is the web ('Not implemented on web'), or the
\* call fails otherwise.
PermissionOutcomes == {"granted", "denied", "web", "error"}

\* The permission state after mount: useState(false), useState(false),
\* useState(true); the mount revision's effect has its request in flight.
MountedPermissions(revision) ==
  [ revision   |-> revision,
    granted    |-> FALSE,
    requested  |-> FALSE,
    showPrompt |-> revision = "prompt",
    pending    |-> IF revision = "mount" THEN 1 ELSE 0 ]

\* requestCameraPermissions up to its await: setPermissionsRequested(true)
\* and a Camera.getPhoto call whose photo is discarded.
requestCameraPermissions(p) ==
  [ p EXCEPT !.requested = TRUE, !.pending = @ + 1 ]

\* The rest of a permission request, after its await.  Success grants and
\* hides the prompt; the catch block first revokes, then grants again on
\* the web.  The mount revision's effect ends the same way, with no prompt
\* to hide.
permissionResolved(p, outcome) ==
  IF outcome \in {"granted", "web"}
  THEN [ p EXCEPT !.pending = @ - 1, !.granted = TRUE, !.showPrompt = FALSE ]
  ELSE [ p EXCEPT !.pending = @ - 1, !.granted = FALSE ]

\* What a handler does when it finds permission missing: a toast, and in
\* the latest revision a call of requestCameraPermissions (which appends to
\* debugInfo, so the component renders again).
PermissionMissing ==
  /\ permissions.revision = "prompt" =>
       permissions.pending < MaxPermissionRequests
  /\ permissions' =
       IF permissions.revision = "prompt"
       THEN requestCameraPermissions(permissions)
       ELSE permissions
  /\ RenderEffects(session, motion, guidanceDirection, {},
                   permissions.revision = "prompt")
  /\ UNCHANGED << session, isCapturing, totalPoints, motion, motionSupported,
                  outstanding, nextSessionId >>

\* startSession without the permission check.
StartSessionUngated ==
  /\ permissions # Null
  /\ StartSession

\* startSession of the permission-aware revisions.
StartSessionGated ==
  /\ permissions # Null
  /\ IF ~permissions.granted THEN PermissionMissing ELSE StartSession

\* handleCapture of the permission-aware revisions: the first guard as
\* before, then the permission check, then the capture.
HandleCaptureGated ==
  /\ permissions # Null
  /\ IF /\ ~captureRejected(session, motion, isCapturing)
        /\ ~permissions.granted
     THEN PermissionMissing
     ELSE HandleCapture

\* A permission request in flight ends.
PermissionRequestEnds(outcome) ==
  /\ permissions # Null
  /\ permissions.pending > 0
  /\ permissions' = permissionResolved(permissions, outcome)
  /\ RenderEffects(session, motion, guidanceDirection, {}, TRUE)
  /\ UNCHANGED << session, isCapturing, totalPoints, motion, motionSupported,
                  outstanding, nextSessionId >>

\* The prompt card is rendered while showPermissionPrompt &&
\* !permissionsGranted; its button is disabled={permissionsRequested}.
PromptVisible ==
  /\ permissions # Null
  /\ permissions.showPrompt
  /\ ~permissions.granted
PromptEnabled == PromptVisible /\ ~permissions.requested

\* The button of the prompt card: onClick={requestCameraPermissions}.
ClickEnableCamera ==
  /\ PromptEnabled
  /\ permissions.pending < MaxPermissionRequests
  /\ permissions' = requestCameraPermissions(permissions)
  /\ RenderEffects(session, motion, guidanceDirection, {}, TRUE)
  /\ UNCHANGED << session, isCapturing, totalPoints, motion, motionSupported,
                  outstanding, nextSessionId >>

ClickStartGated == StartVisible /\ StartSessionGated

InitPermissions ==
  /\ AfterMount
  /\ totalPoints = InitialTotalPoints
  /\ permissions \in { MountedPermissions(revision) : revision \in Revisions }

\* Start is tapped on the rendered control; handleCapture is called whatever
\* the capture button shows (the revisions disable it while permission is
\* missing); camera calls and permission requests return.
NextPermissions ==
  \/ ClickEnableCamera
  \/ ClickStartGated
  \/ HandleCaptureGated
  \/ PhotoArrives
  \/ \E reading \in Readings : OrientationEvent(reading)
  \/ \E outcome \in PermissionOutcomes : PermissionRequestEnds(outcome)

SpecPermissions == InitPermissions /\ [][NextPermissions]_vars

\* =============================================================== claims

AllCaptured(s) == \A i \in DOMAIN s.points : s.points[i].captured
NoneCaptured(s) == \A i \in DOMAIN s.points : ~s.points[i].captured
\* The request was issued on the last point of its session.
OnLastPoint(request) == request.currentPointIndex + 1 >= request.totalPoints

\* C1: whenever a session exists its currentPointIndex does not exceed
\* totalPoints, and while the session is active
\* 0 <= currentPointIndex < totalPoints.
C1_IndexInRange ==
  session # Null =>
    /\ session.currentPointIndex <= session.totalPoints
    /\ session.isActive =>
         /\ 0 <= session.currentPointIndex
         /\ session.currentPointIndex < session.totalPoints

\* A session of at least two points whose last point has been captured.
C1_Witness ==
  /\ session # Null
  /\ session.totalPoints >= 2
  /\ session.points[session.totalPoints].captured
  /\ session.currentPointIndex = session.totalPoints - 1

\* C2: a call of handleCapture while alignment.isAligned is false issues no
\* camera request, leaves the session, isCapturing and every other piece of
\* state as they were, and fires a warning (medium) pulse.
C2_MisalignedCaptureRejected ==
  [][ (HandleCapture /\ ~alignment.isAligned) =>
        /\ outstanding' = outstanding
        /\ session' = session
        /\ isCapturing' = isCapturing
        /\ UNCHANGED << guidanceDirection, totalPoints, motion,
                        nextSessionId >>
        /\ "medium" \in pulses' ]_vars

\* A warning pulse has just fired for an attempt that only the alignment
\* stopped: an active session with a current point and no capture running.
C2_Witness ==
  /\ pulses = {"medium"}
  /\ IsSessionActive(session)
  /\ HasCurrentPoint(session)
  /\ ~isCapturing
  /\ ~alignment.isAligned

\* C3: when a request issued on the last point of its session resolves, the
\* session it leaves is inactive, has an endTime, and has that point captured.
C3_LastCaptureCompletes ==
  [][ \A request \in BagToSet(outstanding), image \in Images :
        (GetPhotoResolves(request, image) /\ OnLastPoint(request)) =>
          /\ session' # Null
          /\ session'.isActive = FALSE
          /\ session'.endTime # Undefined
          /\ session'.points[request.currentPointIndex + 1].captured ]_vars

\* A session completed by the capture of its last point.
C3_Witness ==
  /\ session # Null
  /\ ~session.isActive
  /\ session.endTime = Stamped
  /\ AllCaptured(session)
  /\ "light" \in pulses

\* C4 as claimed: the capture of the final point leaves
\* currentPointIndex = totalPoints.
C4_IndexReachesTotal ==
  [][ \A request \in BagToSet(outstanding), image \in Images :
        (GetPhotoResolves(request, image) /\ OnLastPoint(request)) =>
          session'.currentPointIndex = session'.totalPoints ]_vars

\* C4 as amended: the capture of the final point leaves currentPointIndex at
\* totalPoints - 1, the index of the final point.
C4_IndexStaysOnLastPoint ==
  [][ \A request \in BagToSet(outstanding), image \in Images :
        (GetPhotoResolves(request, image) /\ OnLastPoint(request)) =>
          session'.currentPointIndex = session'.totalPoints - 1 ]_vars

\* A completed session of at least two points, every point captured, with the
\* index on the last point.
C4_Witness ==
  /\ session # Null
  /\ ~session.isActive
  /\ session.totalPoints >= 2
  /\ AllCaptured(session)
  /\ session.currentPointIndex = session.totalPoints - 1

\* C5: startSession replaces the session with a fresh one: a new id, index 0,
\* active, no endTime, overlapPercentage 30, totalPoints the selected count,
\* and that many points, none captured.
C5_StartCreatesFreshSession ==
  [][ StartSession =>
        /\ session' # Null
        /\ session # Null => session'.id # session.id
        /\ session'.currentPointIndex = 0
        /\ session'.isActive = TRUE
        /\ session'.endTime = Undefined
        /\ session'.overlapPercentage = 30
        /\ session'.totalPoints = totalPoints
        /\ Len(session'.points) = totalPoints
        /\ NoneCaptured(session') ]_vars

\* A second session, just started over state the first one left behind.
C5_Witness ==
  /\ session # Null
  /\ session.id = 2
  /\ session.isActive
  /\ session.currentPointIndex = 0
  /\ NoneCaptured(session)
  /\ BagCardinality(outstanding) > 0

\* C6: stopSession on an active session clears isActive and stamps endTime and
\* keeps id, points, currentPointIndex and totalPoints; with no session it
\* changes no state.
C6_StopFrame ==
  [][ StopSession =>
        /\ IsSessionActive(session) =>
             /\ session' # Null
             /\ session'.isActive = FALSE
             /\ session'.endTime # Undefined
             /\ session'.points = session.points
             /\ session'.currentPointIndex = session.currentPointIndex
             /\ session'.totalPoints = session.totalPoints
             /\ session'.id = session.id
        /\ session = Null =>
             UNCHANGED << session, guidanceDirection, isCapturing, totalPoints,
                          motion, motionSupported, outstanding, nextSessionId >> ]_vars

\* A session stopped before any point was captured.
C6_Witness ==
  /\ session # Null
  /\ ~session.isActive
  /\ session.endTime = Stamped
  /\ session.currentPointIndex = 0
  /\ NoneCaptured(session)

\* C7: resetSession, from any state, leaves no session, guidance direction
\* center and isCapturing false.
C7_ResetReachesIdle ==
  [][ ResetSession =>
        /\ session' = Null
        /\ guidanceDirection' = "center"
        /\ isCapturing' = FALSE ]_vars

\* Idle after a reset that dropped a session while a capture was outstanding.
C7_Witness ==
  /\ session = Null
  /\ guidanceDirection = "center"
  /\ ~isCapturing
  /\ nextSessionId > 1
  /\ BagCardinality(outstanding) > 0

\* C8: when the camera call fails the session is left as it was, isCapturing
\* is false, an error (heavy) pulse has fired, and handleCapture accepts the
\* next attempt made while aligned.
C8_FailedCaptureLeavesState ==
  [][ \A request \in BagToSet(outstanding) :
        GetPhotoFails(request) =>
          /\ session' = session
          /\ isCapturing' = FALSE
          /\ "heavy" \in pulses'
          /\ AlignmentOf(session', motion').isAligned =>
               ~captureRejected(session', motion', isCapturing') ]_vars

\* An error pulse has just fired and the session is as the failed request
\* found it: active, aligned, ready for the retry.
C8_Witness ==
  /\ "heavy" \in pulses
  /\ IsSessionActive(session)
  /\ alignment.isAligned
  /\ ~isCapturing
  /\ outstanding = EmptyBag

\* C9 as claimed: at most one capture request is outstanding at any time.
C9_AtMostOneOutstanding == BagCardinality(outstanding) <= 1

\* C10 as claimed: a session that is inactive stays inactive with its endTime
\* for as long as it is the session.
C10_InactiveStaysInactive ==
  [][ ( /\ session # Null
        /\ ~session.isActive
        /\ session' # Null
        /\ session'.id = session.id ) =>
          /\ ~session'.isActive
          /\ session'.endTime # Undefined ]_vars

\* C11 as claimed: a request whose session has been discarded (the state is
\* Idle, or a session started later is in place) resolves without creating
\* or replacing the session.
C11_DiscardedSessionNeverReappears ==
  [][ \A request \in BagToSet(outstanding), image \in Images :
        ( /\ GetPhotoResolves(request, image)
          /\ (session = Null \/ session.id # request.id) ) =>
            session' = session ]_vars

\* C12 as claimed: for as long as the session is the same session, its point
\* list keeps its length (totalPoints) and each point its id, x and y, and a
\* captured point stays captured.
C12_PointsOnlyGainCaptures ==
  [][ ( /\ session # Null
        /\ session' # Null
        /\ session'.id = session.id ) =>
          /\ Len(session'.points) = Len(session.points)
          /\ Len(session'.points) = session'.totalPoints
          /\ \A i \in DOMAIN session.points :
               /\ session'.points[i].id = session.points[i].id
               /\ session'.points[i].x = session.points[i].x
               /\ session'.points[i].y = session.points[i].y
               /\ session.points[i].captured => session'.points[i].captured ]_vars

\* A point's x is the fraction num/den; 0/0 is NaN, which equals no number
\* and is neither less nor greater than any.
IsNumber(x) == x.den # 0
EqualsNumber(x, k) == IsNumber(x) /\ x.num = k * x.den
Less(a, b) ==
  /\ a.den > 0
  /\ b.den > 0
  /\ a.num * b.den < b.num * a.den

\* C13 as claimed: for every point count N the points startSession gets from
\* generateCapturePoints(N) are N points with ids 0..N-1 in order, x strictly
\* increasing from 0 to 100 with x_i = 100*i/(N-1), y = 50 and captured false.
C13_PointsSpanScreen ==
  [][ StartSession =>
        LET points == session'.points
            n == totalPoints
        IN  /\ Len(points) = n
            /\ \A i \in DOMAIN points :
                 /\ points[i].id = i - 1
                 /\ IsNumber(points[i].x)
                 /\ points[i].x.num * (n - 1) = 100 * (i - 1) * points[i].x.den
                 /\ points[i].y = 50
                 /\ points[i].captured = FALSE
            /\ \A i \in DOMAIN points :
                 i + 1 \in DOMAIN points => Less(points[i].x, points[i + 1].x)
            /\ n >= 1 =>
                 /\ EqualsNumber(points[1].x, 0)
                 /\ EqualsNumber(points[n].x, 100) ]_vars

\* C14 as claimed: whenever there is a current point and the horizontal offset
\* of the latest reading is within the tolerance, isAligned is true.
C14_HorizontalBandAligns ==
  HasCurrentPoint(session) =>
    (Abs(alignment.horizontalOffset) < 15 => alignment.isAligned)

\* C14 as amended: isAligned is true exactly for the readings whose horizontal
\* offset is within the tolerance and whose forward tilt is within 30 degrees
\* of 45.
C14_BothBandsAlign ==
  HasCurrentPoint(session) =>
    ( alignment.isAligned <=>
        /\ Abs(alignment.horizontalOffset) < 15
        /\ Abs(alignment.verticalOffset - 45) < 30 )

\* An active session aligned at the edge of both bands.
C14_Witness ==
  /\ IsSessionActive(session)
  /\ alignment.isAligned
  /\ alignment.horizontalOffset = 14
  /\ alignment.verticalOffset = 74

\* The horizontal offsets CameraOverlay is handed in its alignment prop, and
\* the whole numbers between them.
HorizontalOffsets ==
  (-MaxGamma * GammaAmplification)..(MaxGamma * GammaAmplification)

\* C15: the overlay's direction is center exactly for -5 <= offset <= 5, left
\* for offset < -5 and right for offset > 5, and that is the guidance
\* direction stored while a session is active; the earlier revision gives
\* center exactly for -10 <= offset <= 10, right below and left above.
C15_OverlayClassifies ==
  /\ \A offset \in HorizontalOffsets :
       LET latest == OverlayDirection(offset)
           earlier == OverlayDirectionEarlier(offset)
       IN  /\ latest = "center" <=> (-5 <= offset /\ offset <= 5)
           /\ latest = "left" <=> offset < -5
           /\ latest = "right" <=> offset > 5
           /\ earlier = "center" <=> (-10 <= offset /\ offset <= 10)
           /\ earlier = "right" <=> offset < -10
           /\ earlier = "left" <=> offset > 10
  /\ alignment.horizontalOffset \in HorizontalOffsets
  /\ IsSessionActive(session) =>
       guidanceDirection = OverlayDirection(alignment.horizontalOffset)

\* An active session one step outside the threshold on either side of it: the
\* overlay has reported right, or left.
C15_Witness ==
  /\ IsSessionActive(session)
  /\ \/ alignment.horizontalOffset = 6 /\ guidanceDirection = "right"
     \/ alignment.horizontalOffset = -6 /\ guidanceDirection = "left"
  /\ OverlayDirectionEarlier(alignment.horizontalOffset) = "center"

\* What handleCapture does with an attempt that only the alignment decides: a
\* session with a current point and no capture running.
CaptureAccepted ==
  /\ isCapturing' = TRUE
  /\ outstanding' = outstanding (+) SetToBag({session})
CaptureRefused ==
  /\ outstanding' = outstanding
  /\ isCapturing' = isCapturing
  /\ "medium" \in pulses'

\* C16 as claimed: after a reading is delivered the stored motion is that
\* reading, whatever was stored before.
C16_StoredIsDelivered ==
  [][ \A reading \in Readings :
        OrientationEvent(reading) => motion' = reading ]_vars

\* C16 as amended: after a reading is delivered the stored motion is that
\* reading's alpha, beta and gamma, 0 for a component the event lacks,
\* whatever was stored before; nothing else changes the stored motion; and
\* handleCapture accepts or refuses by calculateAlignment of the stored motion.
C16_LatestReadingWins ==
  [][ /\ \A reading \in Readings :
           OrientationEvent(reading) =>
             /\ motion'.alpha =
                  (IF "alpha" \in DOMAIN reading THEN reading.alpha ELSE 0)
             /\ motion'.beta =
                  (IF "beta" \in DOMAIN reading THEN reading.beta ELSE 0)
             /\ motion'.gamma =
                  (IF "gamma" \in DOMAIN reading THEN reading.gamma ELSE 0)
      /\ motion' # motion =>
           \E reading \in Readings : OrientationEvent(reading)
      /\ (HandleCapture /\ HasCurrentPoint(session) /\ ~isCapturing) =>
           IF calculateAlignment(CurrentPointOf(session), motion, 15).isAligned
           THEN CaptureAccepted
           ELSE CaptureRefused ]_vars

\* A capture accepted on the aligned reading, delivered after the flat one
\* the hook starts with.
C16_Witness ==
  /\ motion = [alpha |-> 0, beta |-> 45, gamma |-> -4]
  /\ IsSessionActive(session)
  /\ isCapturing
  /\ BagIn(session, outstanding)

\* C17: when a request issued on a point that is not the last of its session
\* resolves, the session it leaves is the request's session with that point
\* captured with the returned image, every other point as it was, the index
\* one higher, active and without an endTime.
C17_NonFinalCaptureFrame ==
  [][ \A request \in BagToSet(outstanding), image \in Images :
        (GetPhotoResolves(request, image) /\ ~OnLastPoint(request)) =>
          LET k == request.currentPointIndex + 1
          IN  /\ session' # Null
              /\ session'.id = request.id
              /\ session'.totalPoints = request.totalPoints
              /\ Len(session'.points) = Len(request.points)
              /\ session'.points[k].captured = TRUE
              /\ session'.points[k].imageData = image
              /\ session'.points[k].id = request.points[k].id
              /\ session'.points[k].x = request.points[k].x
              /\ session'.points[k].y = request.points[k].y
              /\ \A i \in DOMAIN request.points :
                   i # k => session'.points[i] = request.points[i]
              /\ session'.currentPointIndex = request.currentPointIndex + 1
              /\ session'.isActive = TRUE
              /\ session'.endTime = Undefined ]_vars

\* An active session just advanced past its first point: that point holds
\* the image, the next one is current and not captured.
C17_Witness ==
  /\ IsSessionActive(session)
  /\ session.currentPointIndex = 1
  /\ session.points[1].captured
  /\ session.points[1].imageData \in Images
  /\ ~session.points[2].captured
  /\ session.endTime = Undefined
  /\ "light" \in pulses

CapturedCount(s) ==
  IF s = Null THEN 0
  ELSE Cardinality({ i \in DOMAIN s.points : s.points[i].captured })

\* The session with this id, complete.
Complete(id) ==
  /\ session # Null
  /\ session.id = id
  /\ ~session.isActive
  /\ session.endTime # Undefined
  /\ Len(session.points) = session.totalPoints
  /\ AllCaptured(session)

\* C18: when aligned readings keep occurring, the user keeps capturing, the
\* camera calls succeed and nobody stops or resets, a started session
\* eventually is complete with all its points captured; each successful
\* capture captures exactly one more point, so that takes exactly totalPoints
\* of them.
C18_SessionCompletes ==
  /\ \A id \in 1..MaxSessions :
       (motionSupported /\ IsSessionActive(session) /\ session.id = id)
         ~> Complete(id)
  /\ [][ PhotoArrives =>
           /\ session # Null
           /\ CapturedCount(session') = CapturedCount(session) + 1
           /\ session'.isActive <=> CapturedCount(session') < session'.totalPoints
       ]_vars
  /\ [][ StartSession => CapturedCount(session') = 0 ]_vars

\* A session of seven points run to completion.
C18_Witness ==
  /\ Complete(1)
  /\ session.totalPoints = 7
  /\ CapturedCount(session) = 7
  /\ outstanding = EmptyBag

\* C19: for the stored reading, calculateAlignment gives the same result for
\* every point of the session, captured or not, so the result does not move
\* when currentPointIndex does.
C19_AlignmentIgnoresPoint ==
  session # Null =>
    \A i, j \in DOMAIN session.points :
      calculateAlignment(session.points[i], motion, DefaultTolerance) =
        calculateAlignment(session.points[j], motion, DefaultTolerance)

\* An aligned, active session that has advanced to its second point, the
\* first one captured.
C19_Witness ==
  /\ IsSessionActive(session)
  /\ session.currentPointIndex = 1
  /\ session.points[1].captured
  /\ alignment.isAligned
  /\ alignment.horizontalOffset = -14

\* C20 as claimed: while a session is active and isAligned is true, the
\* guidance direction (the arrow GuidanceArrow shows) is center.
C20_AlignedShowsNoHint ==
  (IsSessionActive(session) /\ alignment.isAligned) =>
    /\ OverlayDirection(alignment.horizontalOffset) = "center"
    /\ guidanceDirection = "center"

\* C21: when the orientation listener was never registered the motion value
\* stays (0, 0, 0), isAligned is false, no capture is accepted (none is
\* outstanding, no point is captured, the index stays 0), an active session
\* has Stop and Reset on offer, and it ceases to be active only by
\* stopSession or resetSession.
C21_NoSensorNoCapture ==
  /\ [](~motionSupported =>
          /\ motion = [alpha |-> 0, beta |-> 0, gamma |-> 0]
          /\ ~alignment.isAligned
          /\ ~isCapturing
          /\ outstanding = EmptyBag
          /\ session # Null =>
               /\ NoneCaptured(session)
               /\ session.currentPointIndex = 0
          /\ IsSessionActive(session) => (StopVisible /\ ResetVisible))
  /\ [](motion = [alpha |-> 0, beta |-> 0, gamma |-> 0] => ~alignment.isAligned)
  /\ [][ (~motionSupported /\ HandleCapture) =>
           /\ UNCHANGED << session, isCapturing, outstanding >>
           /\ "medium" \in pulses' ]_vars
  /\ [][ ( /\ ~motionSupported
           /\ IsSessionActive(session)
           /\ ~IsSessionActive(session') ) =>
             (StopSession \/ ResetSession) ]_vars

\* Without a sensor, a session ended by Stop with nothing captured.
C21_Witness ==
  /\ ~motionSupported
  /\ session # Null
  /\ ~session.isActive
  /\ session.endTime = Stamped
  /\ NoneCaptured(session)

\* C22 as claimed: whenever a session exists, active or not, the controls
\* offer Reset.
C22_ResetAlwaysOffered == session # Null => ResetVisible

\* C23: in the permission-aware revisions, while permission is not granted,
\* Start creates no session and leaves the session state unchanged (the
\* latest revision also issues a permission request, the other one changes
\* nothing), and a capture attempt, aligned or not, issues no capture request
\* and leaves session and isCapturing unchanged.
C23_NoPermissionNoSession ==
  /\ [][ (permissions # Null /\ ~permissions.granted /\ StartSessionGated) =>
           /\ UNCHANGED << session, guidanceDirection, isCapturing,
                           totalPoints, outstanding, nextSessionId >>
           /\ permissions.revision = "prompt" =>
                /\ permissions'.pending = permissions.pending + 1
                /\ permissions'.requested
           /\ permissions.revision = "mount" => permissions' = permissions
       ]_vars
  /\ [][ (permissions # Null /\ ~permissions.granted /\ HandleCaptureGated) =>
           UNCHANGED << session, isCapturing, outstanding >> ]_vars

\* Permission is missing, a session exists on an aligned point with no
\* capture in flight, and a permission request is in flight.
C23_Witness ==
  /\ permissions # Null
  /\ ~permissions.granted
  /\ permissions.pending > 0
  /\ session # Null
  /\ ~captureRejected(session, motion, isCapturing)

\* C24: in every state with a session the captured points form a prefix:
\* every point before currentPointIndex is captured, every point after it is
\* not, and the point at currentPointIndex is captured only in a session
\* that completed by capturing its final point; so while the session is
\* active the number of captured points equals currentPointIndex.
C24_CapturedPrefix ==
  session # Null =>
    LET current == session.currentPointIndex + 1
    IN  /\ \A i \in DOMAIN session.points :
             /\ i < current => session.points[i].captured
             /\ i > current => ~session.points[i].captured
        /\ (current \in DOMAIN session.points
              /\ session.points[current].captured) =>
             /\ ~session.isActive
             /\ current = session.totalPoints
             /\ AllCaptured(session)
        /\ session.isActive =>
             CapturedCount(session) = session.currentPointIndex

\* An active session part of the way through: some points captured, the
\* current one and a later one not.
C24_Witness ==
  /\ session # Null
  /\ session.isActive
  /\ session.currentPointIndex >= 2
  /\ session.currentPointIndex + 2 <= session.totalPoints
  /\ CapturedCount(session) = session.currentPointIndex

\* C25: in every state with a session, endTime is defined exactly when
\* isActive is false, whatever the interleaving of starts, capture
\* completions and stops.
C25_EndTimeIffInactive ==
  session # Null => (session.endTime # Undefined <=> ~session.isActive)

\* A session stopped part of the way through, carrying its endTime.
C25_Witness ==
  /\ session # Null
  /\ ~session.isActive
  /\ session.endTime = Stamped
  /\ CapturedCount(session) >= 1
  /\ ~AllCaptured(session)

\* C26: a capture request is issued only while a session is active: with no
\* session, after Stop and after the final capture no capture can be
\* started, so every request in flight was issued from an active session and
\* no capture started after completion changes a completed session.
C26_CaptureOnlyWhileActive ==
  /\ [][ BagCardinality(outstanding') > BagCardinality(outstanding) =>
           /\ IsSessionActive(session)
           /\ outstanding' = outstanding (+) SetToBag({session}) ]_vars
  /\ [](\A request \in BagToSet(outstanding) : IsSessionActive(request))

\* A completed session on an aligned reading with no capture running: the
\* handler's own guard would accept a capture, and none can be started.
C26_Witness ==
  /\ session # Null
  /\ ~session.isActive
  /\ AllCaptured(session)
  /\ ~captureRejected(session, motion, isCapturing)
  /\ ~CaptureEnabled

\* C27 as claimed: in the latest revision, once permissionsGranted is true
\* it never returns to false, whatever the interleaving of permission
\* requests (from the prompt button, Start and Capture) and their endings.
C27_GrantedIsStable ==
  [][ (/\ permissions # Null
       /\ permissions.revision = "prompt"
       /\ permissions.granted) => permissions'.granted ]_vars

\* C28 as claimed: in the latest revision, once a permission request has
\* ended in a denial and none is in flight, with permission still missing
\* and the prompt card shown, the card's button is enabled again.
C28_PromptEnabledAfterDenial ==
  (/\ permissions # Null
   /\ permissions.revision = "prompt"
   /\ permissions.pending = 0
   /\ PromptVisible) => PromptEnabled

\* C29 as claimed: in the latest overlay the two direction cues never
\* contradict each other: whenever the guidance arrow shows a direction the
\* overlay's label names the same direction, and the label reads ALIGNED
\* exactly when the arrow's direction is center.
C29_CuesAgree ==
  IsSessionActive(session) =>
    LET arrow == ArrowLabel(guidanceDirection, IsSessionActive(session))
        label == OverlayLabel(alignment.horizontalOffset)
    IN  /\ arrow # "none" => label = arrow
        /\ label = "ALIGNED" <=> guidanceDirection = "center"

====
